---- MODULE Spec2Model ----
(***************************************************************************)
(* Model of the Draft_SelectPlane command of                               *)
(* src/Mod/Draft/draftguitools/gui_selectplane.py.                         *)
(*                                                                         *)
(* The state is the command object (self.states, self.call, self.taskd),   *)
(* the global working plane FreeCAD.DraftWorkingPlane, the toolbar button  *)
(* self.wpButton, the 3D view (camera, registered SoEvent callbacks), the  *)
(* task dialog and the queue of todo.delay().  The host selection and the  *)
(* camera of the view belong to the host and are inputs: a handler that    *)
(* calls getSelectionEx() or reads the camera is given what it finds.      *)
(* Every handler of the command is one action; the handlers are written    *)
(* as operators on a record of the whole state so that a handler can call  *)
(* another one (handle -> display, onClickTop -> display -> finish).       *)
(*                                                                         *)
(* Vectors are triples of integers; every direction that occurs is a unit  *)
(* vector along a coordinate axis, so that dot and cross products, the     *)
(* projections and the normalisations of the code stay exact.              *)
(***************************************************************************)
EXTENDS Integers, Sequences, FiniteSets, TLC

VARIABLES
    states,      \* self.states: the plane history, a list of [u, v, axis, position]
    wp,          \* FreeCAD.DraftWorkingPlane: u, v, axis, position, weak
    taskd,       \* self.taskd.form: fieldOffset, checkCenter, the grid and snap
                 \* fields as Activated() filled them
    dialog,      \* TRUE while FreeCADGui.Control shows the task dialog
    call,        \* self.call: unset, None, or the id of a callback
    registered,  \* the ids of the SoEvent callbacks registered on the view
    todo,        \* number of checkSelection calls queued by todo.delay
    wpButton,    \* self.wpButton: text and tooltip of the toolbar button
    param,       \* self.param: CenterPlaneOnView, gridSpacing, gridEvery, snapRange
    hist,        \* bookkeeping: what the last operations on the history were
    last         \* bookkeeping: the handler that ran last and how it ended

vars == <<states, wp, taskd, dialog, call, registered,
          todo, wpButton, param, hist, last>>

---------------------------------------------------------------------------
(* Bounds of the model *)

\* longest history: a handler that would push beyond it is not taken
MaxHist == 2
\* most SoEvent callbacks registered on the view at once
MaxCallbacks == 2
\* most delayed checkSelection calls waiting in the todo queue
MaxTodo == 2

---------------------------------------------------------------------------
(* FreeCAD.Vector *)

Vector(x, y, z) == <<x, y, z>>
ZeroVector == Vector(0, 0, 0)
add(a, b) == Vector(a[1] + b[1], a[2] + b[2], a[3] + b[3])
sub(a, b) == Vector(a[1] - b[1], a[2] - b[2], a[3] - b[3])
multiply(a, k) == Vector(a[1] * k, a[2] * k, a[3] * k)
negative(a) == multiply(a, -1)
dot(a, b) == a[1] * b[1] + a[2] * b[2] + a[3] * b[3]
cross(a, b) == Vector(a[2] * b[3] - a[3] * b[2],
                      a[3] * b[1] - a[1] * b[3],
                      a[1] * b[2] - a[2] * b[1])

Abs(n) == IF n < 0 THEN -n ELSE n

---------------------------------------------------------------------------
(* str() of a float with an integral value, and the slices of display() *)

Digit(d) == SubSeq("0123456789", d + 1, d + 1)

RECURSIVE NatStr(_)
NatStr(n) == IF n < 10 THEN Digit(n) ELSE NatStr(n \div 10) \o Digit(n % 10)

\* str(x) for the float x = n: "1.0", "-1.0", "0.0"
FloatStr(n) == (IF n < 0 THEN "-" ELSE "") \o NatStr(Abs(n)) \o ".0"

\* s[:k]
Slice(s, k) == SubSeq(s, 1, IF Len(s) < k THEN Len(s) ELSE k)

\* pat in s
Contains(s, pat) ==
    \E i \in 1..(Len(s) - Len(pat) + 1) : SubSeq(s, i, i + Len(pat) - 1) = pat

---------------------------------------------------------------------------
(* WorkingPlane.py: the methods of FreeCAD.DraftWorkingPlane that the      *)
(* command calls.  A plane is [u, v, axis, position, weak].                *)

XAxis == Vector(1, 0, 0)

\* Vector.normalize() of a vector along a coordinate axis
Sign(n) == IF n < 0 THEN -1 ELSE IF n > 0 THEN 1 ELSE 0
normalize(a) == Vector(Sign(a[1]), Sign(a[2]), Sign(a[3]))

\* the plane the application starts with: the XY plane, weak (it follows the view)
InitialPlane ==
    [u |-> Vector(1, 0, 0), v |-> Vector(0, 1, 0), axis |-> Vector(0, 0, 1),
     position |-> ZeroVector, weak |-> TRUE]

\* upvec = ZeroVector stands for upvec=None
alignToPointAndAxis(p, point, axis, offset, upvec) ==
    LET uv == IF axis = XAxis
                THEN <<Vector(0, 1, 0), Vector(0, 0, 1)>>
              ELSE IF axis = negative(XAxis)
                THEN <<Vector(0, -1, 0), Vector(0, 0, 1)>>
              ELSE IF upvec # ZeroVector
                THEN LET u == normalize(cross(upvec, axis))
                     IN  <<u, normalize(cross(axis, u))>>
              ELSE LET v == normalize(cross(axis, XAxis))
                   IN  <<cross(v, axis), v>>     \* u: v turned by -pi/2 about axis
    IN  [u |-> uv[1], v |-> uv[2], axis |-> axis,
         position |-> add(point, multiply(axis, offset)), weak |-> FALSE]

\* setup(force): a weak plane follows the view, unless its axis is already
\* parallel or antiparallel to the view direction
setup(p, cam, force) ==
    IF p.weak \/ force
      THEN LET q == IF cross(cam.dir, p.axis) = ZeroVector
                      THEN p
                      ELSE alignToPointAndAxis(p, ZeroVector, negative(cam.dir),
                                               0, cam.up)
           IN  [q EXCEPT !.weak = ~force]
      ELSE p

\* reset(): the plane becomes weak again
reset(p) == [p EXCEPT !.weak = TRUE]

\* save() is never called by this command, so restore() finds nothing stored
NothingStored == [saved |-> FALSE, plane |-> InitialPlane]
restore(p, stored) == IF stored.saved THEN stored.plane ELSE p

\* setFromPlacement(pl, rebase=True): axes from the rotation, position = Base
setFromPlacement(p, pl) ==
    [p EXCEPT !.u = pl.u, !.v = pl.v, !.axis = pl.axis, !.position = pl.Base]

\* alignToFace(shape, offset): [ok, plane]; fails when shape is no face
alignToFace(p, shape, offset) ==
    IF shape.ShapeType = "Face"
      THEN [ok |-> TRUE,
            plane |-> alignToPointAndAxis(p, shape.Point, shape.Normal, offset,
                                          ZeroVector)]
      ELSE [ok |-> FALSE, plane |-> p]

\* alignTo3Points(p1, p2, p3, offset): no face can be built on collinear
\* points and the plane is left alone; else normal = (p2-p1) x (p3-p1),
\* origin p1 displaced by offset along the normal
alignTo3Points(p, p1, p2, p3, offset) ==
    LET n == cross(sub(p2, p1), sub(p3, p1))
    IN  IF n = ZeroVector
          THEN [ok |-> FALSE, plane |-> p]
          ELSE alignToFace(p, [ShapeType |-> "Face", Point |-> p1,
                               Normal |-> normalize(n)], offset)

\* alignToEdges(edges): the edges of the modelled Axis object span a plane
alignToEdges(p, obj) ==
    alignToPointAndAxis(p, obj.Placement.Base, obj.Placement.axis, 0, ZeroVector)

\* projectPoint(p, direction): the point where the line through pt along
\* direction meets the plane; direction = ZeroVector stands for None (the
\* plane's axis).  For a direction parallel to the plane the code multiplies
\* by tan(pi/2): Far stands for that factor.
Far == 100
projectPoint(p, pt, direction) ==
    LET d  == IF direction = ZeroVector THEN p.axis ELSE direction
        lz == dot(sub(pt, p.position), p.axis)      \* height of pt over the plane
        gp == sub(pt, multiply(p.axis, lz))         \* foot of the perpendicular
        da == dot(d, p.axis)
    IN  IF da # 0 THEN gp ELSE add(gp, multiply(d, Far * Abs(lz)))

---------------------------------------------------------------------------
(* The host: the objects that can be selected, the views, the offsets      *)

Vertex(pt) == [ShapeType |-> "Vertex", Point |-> pt, Normal |-> ZeroVector]
\* a face: its centre of mass and its normal
Face(pt, n) == [ShapeType |-> "Face", Point |-> pt, Normal |-> n]

Placement(base, u, v, axis) == [Base |-> base, u |-> u, v |-> v, axis |-> axis]
NoPlacement ==
    Placement(ZeroVector, Vector(1, 0, 0), Vector(0, 1, 0), Vector(0, 0, 1))

\* a selected object (a SelectionObject and its Object), with what
\* handle(), onClickMove() and alignToSelection() read of it
SelObject(type, label) ==
    [Type |-> type,               \* Draft.getType(sel.Object)
     Label |-> label,
     Placement |-> NoPlacement,
     AutoWorkingPlane |-> FALSE,  \* ViewObject.AutoWorkingPlane
     SubElementNames |-> <<>>,
     SubObjects |-> <<>>,
     PartFeature |-> FALSE,       \* isDerivedFrom("Part::Feature")
     Faces |-> <<>>,              \* Shape.Faces
     Curve |-> <<>>]              \* the planar face alignToCurve builds, if any

V1 == Vertex(Vector(0, 0, 0))
V2 == Vertex(Vector(1, 0, 0))
V3 == Vertex(Vector(0, 1, 0))
V4 == Vertex(Vector(2, 0, 0))     \* on the line through V1 and V2
FaceUp == Face(Vector(0, 0, 2), Vector(0, 0, 1))
FaceSide == Face(Vector(1, 0, 0), Vector(1, 0, 0))

\* a box: a Part::Feature with several faces
Box == [SelObject("Part", "Box") EXCEPT !.PartFeature = TRUE,
                                        !.Faces = <<FaceUp, FaceSide>>]
BoxWith(names, subs) ==
    [Box EXCEPT !.SubElementNames = names, !.SubObjects = subs]

ProxyPlacement ==
    Placement(Vector(0, -2, 0), Vector(1, 0, 0), Vector(0, 0, 1), Vector(0, -1, 0))

SelNothing == <<>>
SelProxy == << [SelObject("WorkingPlaneProxy", "WPProxy") EXCEPT
                 !.Placement = ProxyPlacement] >>
SelFace == << BoxWith(<<"Face1">>, <<FaceSide>>) >>
Sel3Vertices == << BoxWith(<<"Vertex1", "Vertex2", "Vertex3">>, <<V1, V2, V3>>) >>
SelCollinear == << BoxWith(<<"Vertex1", "Vertex2", "Vertex4">>, <<V1, V2, V4>>) >>
SelVertex == << BoxWith(<<"Vertex2">>, <<V2>>) >>
\* a planar wire: handle() does not recognise it, alignToSelection() does
SelWire == << [SelObject("Wire", "Wire") EXCEPT !.PartFeature = TRUE,
                                                !.Curve = <<FaceUp>>] >>

\* what getSelectionEx() returns, by the name of the selection
Selected(name) ==
    CASE name = "nothing" -> SelNothing
      [] name = "WorkingPlaneProxy" -> SelProxy
      [] name = "Face" -> SelFace
      [] name = "3 vertices" -> Sel3Vertices
      [] name = "collinear vertices" -> SelCollinear
      [] name = "Vertex" -> SelVertex
      [] name = "Wire" -> SelWire

\* the selections the user makes
Selections ==
    {"nothing", "WorkingPlaneProxy", "Face", "3 vertices", "collinear vertices",
     "Vertex", "Wire"}

\* camera poses: looking down on the scene and looking at it from the front
View(pos, dir, up) == [pos |-> pos, dir |-> dir, up |-> up]
TopView == View(Vector(0, 0, 5), Vector(0, 0, -1), Vector(0, 1, 0))
FrontView == View(Vector(0, -5, 0), Vector(0, 1, 0), Vector(0, 0, 1))
Views == {TopView, FrontView}
\* a camera below the origin that looks away from it
AwayView == View(Vector(0, 0, -5), Vector(0, 0, -1), Vector(0, 1, 0))
\* the camera poses getCenterPoint() is given
CenterViews == Views \cup {AwayView}
\* no camera: the handler does not read it
NoView == View(ZeroVector, ZeroVector, ZeroVector)

\* the values typed into the offset field
Offsets == {0, 2}

\* what the user enters in the grid spacing, main line and snap radius fields
GridTexts == {"1 mm", "abc"}
Mainlines == {1, 10}
SnapRadii == {8}

---------------------------------------------------------------------------
(* The command.  s is the whole state as a record; a handler returns the   *)
(* state it leaves.  s.raised tells that the handler ended by an exception.*)

\* s.camera is the camera of the view as the handler finds it
St == [states |-> states, wp |-> wp, camera |-> NoView, taskd |-> taskd,
       dialog |-> dialog, call |-> call, registered |-> registered,
       todo |-> todo, wpButton |-> wpButton, param |-> param, hist |-> hist,
       raised |-> FALSE, caught |-> FALSE]

\* F(x), with x evaluated once: a statement after the one that computed x
Then(x, F(_)) == CHOOSE r \in {F(v) : v \in {x}} : TRUE

\* the two kinds of argument of display() and tostr()
Str(x) == [type |-> "str", str |-> x, vec |-> ZeroVector]
Vec(v) == [type |-> "Vector", str |-> "", vec |-> v]
Tuple(v) == [type |-> "tuple", str |-> "", vec |-> v]

\* self.call: not yet assigned, None (id 0), or a callback handle
CallUnset == [set |-> FALSE, id |-> 0]
CallNone == [set |-> TRUE, id |-> 0]
Callback(i) == [set |-> TRUE, id |-> i]

\* __init__
ac == "FreeCAD.DraftWorkingPlane.alignToPointAndAxis"

\* [p.u, p.v, p.axis, p.position]
entry(p) == <<p.u, p.v, p.axis, p.position>>

\* an insert at the wrong end: insert(0, ...)
pushFront(st, p) == <<entry(p)>> \o st

\* self.states.append([p.u, p.v, p.axis, p.position])
appendState(st, p) == Append(st, entry(p))

\* a pop at the wrong end: pop(0)
popFirst(st) == Tail(st)

\* self.states.pop()
popState(st) == SubSeq(st, 1, Len(st) - 1)

\* a history that starts again with every activation
writeFresh(st, p) == <<entry(p)>>

\* Activated, lines 84-87: write the current plane if the history is empty
writeCurrent(st, p) == IF st = <<>> THEN appendState(st, p) ELSE st

\* getOffset(): the offset field holds the text of a number
getOffset(s) == s.taskd.fieldOffset

\* tostr(v): the components are floats for a Vector, ints for a tuple
tostr(v) ==
    LET comp(n) == IF v.type = "tuple"
                     THEN (IF n < 0 THEN "-" ELSE "") \o NatStr(Abs(n))
                     ELSE FloatStr(n)
    IN  "FreeCAD.Vector(" \o comp(v.vec[1]) \o ", " \o comp(v.vec[2]) \o ", "
            \o comp(v.vec[3]) \o ")"

\* DraftVecUtils.project(u, v) for a unit vector v
project(u, v) == multiply(v, dot(u, v))

\* a centre point computed without the test of the angle
centerWithoutAngleTest(s, v) ==
    IF ~s.taskd.checkCenter
      THEN ZeroVector
      ELSE LET cam1 == s.camera.pos
               cam2 == s.camera.dir
               d    == Abs(dot(cam1, v))
               c    == dot(project(cam1, v), cam2)
           IN  add(cam1, multiply(cam2, IF c > 0 THEN d
                                        ELSE IF c < 0 THEN -d ELSE d * Far))

\* getCenterPoint(x, y, z).  The angle a between vcam1 and the view
\* direction is 0, pi/2 or pi here; a vcam1 of length zero gives the
\* largest float as angle, L = 0 and the camera position as result.
getCenterPoint(s, v) ==
    IF ~s.taskd.checkCenter
      THEN ZeroVector
      ELSE LET cam1  == s.camera.pos
               cam2  == s.camera.dir
               vcam1 == project(cam1, v)
               d     == Abs(dot(cam1, v))               \* vcam1.Length
               c     == dot(vcam1, cam2)
           IN  IF vcam1 = ZeroVector THEN cam1
               ELSE IF c > 0 THEN ZeroVector            \* a = 0 < 0.0001
               ELSE IF c < 0 THEN add(cam1, multiply(cam2, -d))    \* cos(a) = -1
               ELSE add(cam1, multiply(cam2, d * Far))  \* cos(a) nearly 0

\* display, lines 465-472: the direction of the plane in the tooltip
direction(_vdir) ==
    " Dir: " \o "(" \o Slice(FloatStr(_vdir[1]), 4) \o ","
             \o Slice(FloatStr(_vdir[2]), 4) \o ","
             \o Slice(FloatStr(_vdir[3]), 4) \o ")"

\* display(arg): the button text and tooltip, and a new history entry
display(s, arg) ==
    LET o == getOffset(s)
        suffix == IF o # 0 THEN (IF o > 0 THEN " +O" ELSE " -O") ELSE ""
        vdir == direction(s.wp.axis)
        text == arg.str \o suffix
        ostr == IF o # 0 THEN " Offset: " \o FloatStr(o) ELSE ""
        plv == "(" \o Slice(FloatStr(arg.vec[1]), 6) \o ","
                   \o Slice(FloatStr(arg.vec[2]), 6) \o ","
                   \o Slice(FloatStr(arg.vec[3]), 6) \o ")"
        button == IF arg.type = "str"
                    THEN [text |-> text,
                          tip |-> "Current working plane: " \o text \o ostr \o vdir]
                  ELSE IF arg.type = "Vector"
                    THEN [text |-> "Custom",
                          tip |-> "Current working plane: " \o plv \o vdir]
                  ELSE s.wpButton
    IN  [s EXCEPT !.wpButton = button,
                  !.hist.pushed = TRUE, !.hist.undone = FALSE,
                  !.hist.before = s.states,
                  !.states = appendState(s.states, s.wp)]

\* a removal without the try: the RuntimeError leaves finish()
removeUnguarded(s) ==
    IF s.call.id = 0
      THEN [s EXCEPT !.caught = FALSE]
      ELSE IF s.call.id \in s.registered
        THEN [s EXCEPT !.registered = @ \ {s.call.id}, !.call = CallNone,
                       !.caught = FALSE]
        ELSE [s EXCEPT !.raised = TRUE]

\* finish, lines 150-156: remove the callback self.call refers to.  The
\* callbacks of a deleted view are gone and removeEventCallback raises
\* RuntimeError, which is caught; s.caught tells that this happened
removeCallback(s) ==
    IF s.call.id = 0
      THEN [s EXCEPT !.caught = FALSE]
      ELSE IF s.call.id \in s.registered
        THEN [s EXCEPT !.registered = @ \ {s.call.id}, !.call = CallNone,
                       !.caught = FALSE]
        ELSE [s EXCEPT !.call = CallNone, !.caught = TRUE]

\* finish(): reading self.call before Activated ever assigned it raises
\* AttributeError, after the preference was stored
finish(s) ==
    LET s1 == [s EXCEPT !.param.CenterPlaneOnView = s.taskd.checkCenter]
    IN  IF ~s1.call.set
          THEN [s1 EXCEPT !.raised = TRUE]
          ELSE Then(removeCallback(s1), LAMBDA s2 :
                 IF s2.raised
                   THEN s2
                   ELSE [s2 EXCEPT !.dialog = FALSE,
                                   !.wp = restore(@, NothingStored)])

\* the vertices among the sub-objects of all selected objects
RECURSIVE SubVertices(_)
SubVertices(sel) ==
    IF sel = <<>>
      THEN <<>>
      ELSE SelectSeq(Head(sel).SubObjects, LAMBDA so : so.ShapeType = "Vertex")
             \o SubVertices(Tail(sel))

\* self.display(FreeCAD.DraftWorkingPlane.axis), the plane being p by now
displayAxis(s, p) ==
    Then([s EXCEPT !.wp = p], LAMBDA s1 : display(s1, Vec(s1.wp.axis)))

\* the label of a saved plane replaces what display() wrote (lines 240-241)
setLabel(s, label) ==
    [s EXCEPT !.wpButton = [text |-> label,
                            tip |-> "Current working plane: " \o label]]

\* a saved plane displaced by the offset of the field
proxyPlaneWithOffset(s, o) ==
    [setFromPlacement(s.wp, o.Placement) EXCEPT
        !.weak = o.AutoWorkingPlane,
        !.position = add(o.Placement.Base,
                         multiply(o.Placement.axis, getOffset(s)))]

\* handle, lines 195-199: the plane of a WorkingPlaneProxy or BuildingPart
proxyPlane(s, o) ==
    [setFromPlacement(s.wp, o.Placement) EXCEPT !.weak = o.AutoWorkingPlane]

\* handle(): [ok, s], ok being the value returned.  The view properties of a
\* proxy (CutView, RestoreView, RestoreState) are absent from the modelled
\* objects.
handle(s, sel) ==
    LET Done(r) == [ok |-> TRUE, s |-> r]
        Fail == [ok |-> FALSE, s |-> s]
        o == sel[1]
        names == o.SubElementNames
    IN  IF Len(sel) = 1
          THEN IF o.Type = "Axis"
                 THEN Done(displayAxis(s, alignToEdges(s.wp, o)))
               ELSE IF o.Type \in {"WorkingPlaneProxy", "BuildingPart"}
                 THEN Done(setLabel(displayAxis(s, proxyPlane(s, o)), o.Label))
               ELSE IF o.Type = "SectionPlane"
                 THEN Done(setLabel(displayAxis(s,
                        [setFromPlacement(s.wp, o.Placement)
                           EXCEPT !.weak = FALSE]), o.Label))
               ELSE IF names # <<>>                       \* sel.HasSubObjects
                 THEN IF Len(names) = 1
                        THEN IF Contains(names[1], "Face")
                               THEN Done(displayAxis(s,
                                      alignToFace(s.wp, o.SubObjects[1],
                                                  getOffset(s)).plane))
                             ELSE IF names[1] = "Plane"
                               THEN Done(displayAxis(s,
                                      setFromPlacement(s.wp, o.Placement)))
                             ELSE Fail
                      ELSE IF Len(names) = 3
                        THEN IF \A i \in 1..3 : Contains(names[i], "Vertex")
                               THEN Done(displayAxis(s,
                                      alignTo3Points(s.wp, o.SubObjects[1].Point,
                                                     o.SubObjects[2].Point,
                                                     o.SubObjects[3].Point,
                                                     getOffset(s)).plane))
                               ELSE Fail
                      ELSE Fail
               ELSE IF o.PartFeature
                 THEN IF Len(o.Faces) = 1
                        THEN Done(displayAxis(s,
                               alignToFace(s.wp, o.Faces[1], getOffset(s)).plane))
                        ELSE Fail
               ELSE Fail
        ELSE IF sel # <<>>
          THEN Then(SubVertices(sel), LAMBDA subs :
                 IF Len(subs) = 3
                   THEN Done(displayAxis(s,
                          alignTo3Points(s.wp, subs[1].Point, subs[2].Point,
                                         subs[3].Point, getOffset(s)).plane))
                   ELSE Fail)
        ELSE Fail

\* WorkingPlane.alignToSelection(): [ok, plane].  One Part::Feature whose
\* shape is a face or a planar curve; the offset defaults to 0.
alignToSelection(p, sel) ==
    IF Len(sel) = 1 /\ sel[1].PartFeature
      THEN IF Len(sel[1].Faces) = 1 /\ sel[1].Curve = <<>>
             THEN alignToFace(p, sel[1].Faces[1], 0)
           ELSE IF Len(sel[1].SubObjects) = 1
                   /\ sel[1].SubObjects[1].ShapeType = "Face"
             THEN alignToFace(p, sel[1].SubObjects[1], 0)
           ELSE IF sel[1].Curve # <<>>
             THEN alignToFace(p, sel[1].Curve[1], 0)
           ELSE [ok |-> FALSE, plane |-> p]
      ELSE [ok |-> FALSE, plane |-> p]

\* the numbers written in a text, in order: a number starts at a sign or
\* digit that follows neither a digit, a sign nor a point
Digits == {"0", "1", "2", "3", "4", "5", "6", "7", "8", "9"}
IsOneOf(chars, str, i) == i >= 1 /\ i <= Len(str) /\ SubSeq(str, i, i) \in chars
NumberEnd(str, i) ==
    CHOOSE j \in i..Len(str) :
        /\ \A k \in (i + 1)..j : IsOneOf(Digits \cup {"."}, str, k)
        /\ ~IsOneOf(Digits \cup {"."}, str, j + 1)
Numbers(text) ==
    Then(text, LAMBDA str :
      Then({i \in 1..Len(str) : /\ IsOneOf(Digits \cup {"-"}, str, i)
                                /\ ~IsOneOf(Digits \cup {"-", "."}, str, i - 1)},
           LAMBDA starts :
             [k \in 1..Cardinality(starts) |->
                Then(CHOOSE i \in starts : Cardinality({j \in starts : j < i}) = k - 1,
                     LAMBDA i : SubSeq(str, i, NumberEnd(str, i)))]))

\* the value of a number text: "-1.0", "2", "0.0"
RECURSIVE ParseNat(_, _, _)
ParseNat(str, i, acc) ==
    IF i > Len(str) \/ SubSeq(str, i, i) = "."
      THEN acc
      ELSE ParseNat(str, i + 1,
             10 * acc + CHOOSE d \in 0..9 : Digit(d) = SubSeq(str, i, i))
ParseNumber(str) ==
    IF SubSeq(str, 1, 1) = "-" THEN -ParseNat(str, 2, 0) ELSE ParseNat(str, 1, 0)

\* the arguments the interpreter reads in the text of a call of self.ac:
\* a point, an axis and an offset
arguments(cmd) ==
    Then(Numbers(SubSeq(cmd, Len(ac) + 2, Len(cmd))), LAMBDA n :
      [point |-> Vector(ParseNumber(n[1]), ParseNumber(n[2]), ParseNumber(n[3])),
       axis |-> Vector(ParseNumber(n[4]), ParseNumber(n[5]), ParseNumber(n[6])),
       offset |-> ParseNumber(n[7])])

\* a command text that leaves the offset at zero
commandWithoutOffset(s, axis) ==
    ac \o "(" \o tostr(Vec(getCenterPoint(s, axis))) \o ", "
       \o tostr(Tuple(axis)) \o ", " \o FloatStr(0) \o ")"

\* the command text of onClickTop, onClickFront and onClickSide
command(s, axis) ==
    LET offset == FloatStr(getOffset(s))
    IN  ac \o "(" \o tostr(Vec(getCenterPoint(s, axis))) \o ", "
           \o tostr(Tuple(axis)) \o ", " \o offset \o ")"

\* the texts the three buttons can write, and what the interpreter reads
\* in each of them
CanonicalAxes == {Vector(0, 0, 1), Vector(0, -1, 0), Vector(1, 0, 0)}
Commands ==
    {command([camera |-> cam, taskd |-> [fieldOffset |-> o, checkCenter |-> c]],
             axis) :
        cam \in CenterViews, o \in Offsets, c \in BOOLEAN, axis \in CanonicalAxes}
read == [cmd \in Commands |-> arguments(cmd)]

\* FreeCADGui.doCommandGui(cmd): the interpreter runs the command text
doCommandGui(s, cmd) ==
    IF cmd \in Commands
      THEN [s EXCEPT !.wp = alignToPointAndAxis(@, read[cmd].point,
                                                read[cmd].axis,
                                                read[cmd].offset, ZeroVector)]
    ELSE IF cmd = "FreeCAD.DraftWorkingPlane.setup(force=True)"
      THEN [s EXCEPT !.wp = setup(@, s.camera, TRUE)]
    ELSE IF cmd = "FreeCAD.DraftWorkingPlane.reset()"
      THEN [s EXCEPT !.wp = reset(@)]
    ELSE s

\* the body shared by onClickTop, onClickFront and onClickSide
onClickCanonical(s, axis, name) ==
    Then(Then(Then(command(s, axis), LAMBDA _cmd : doCommandGui(s, _cmd)),
              LAMBDA s1 : display(s1, Str(name))), finish)

onClickTop(s) == onClickCanonical(s, Vector(0, 0, 1), "Top")
onClickFront(s) == onClickCanonical(s, Vector(0, -1, 0), "Front")
onClickSide(s) == onClickCanonical(s, Vector(1, 0, 0), "Side")

onClickAlign(s) ==
    Then(Then(doCommandGui(s, "FreeCAD.DraftWorkingPlane.setup(force=True)"),
              LAMBDA s1 : display(s1, Vec(negative(s.camera.dir)))), finish)

onClickAuto(s) ==
    Then(Then(doCommandGui(s, "FreeCAD.DraftWorkingPlane.reset()"),
              LAMBDA s1 : display(s1, Str("Auto"))), finish)

\* a move that forgets display()
moveWithoutDisplay(s, target) == finish([s EXCEPT !.wp.position = target])

\* target: the point the plane is moved to
moveTo(s, target) ==
    Then(display([s EXCEPT !.wp.position = target], Vec(target)), finish)

\* a Move that does nothing unless one vertex is selected
moveOnlyToVertex(s, sel) ==
    Then(SubVertices(sel), LAMBDA verts :
      IF Len(verts) = 1 THEN moveTo(s, verts[1].Point) ELSE s)

onClickMove(s, sel) ==
    IF sel # <<>>
      THEN Then(SubVertices(sel), LAMBDA verts :
             IF Len(verts) = 1 THEN moveTo(s, verts[1].Point) ELSE s)
      ELSE Then(projectPoint(s.wp, s.camera.pos, s.camera.dir),
                LAMBDA pp : moveTo(s, pp))

\* the camera takes the rotation of the plane and is brought above its
\* origin; the camera is the host's, so the command is left with finish()
onClickCenter(s) == finish(s)

\* onClickPrevious, lines 422-429: discard the last entry, take the plane
\* from the entry below it, finish()
discardLast(s) ==
    Then(popState(s.states), LAMBDA st :
      Then([s EXCEPT !.states = st,
                     !.hist.pushed = FALSE, !.hist.undone = s.hist.pushed,
                     !.wp.u = st[Len(st)][1], !.wp.v = st[Len(st)][2],
                     !.wp.axis = st[Len(st)][3],
                     !.wp.position = st[Len(st)][4]], finish))

\* finish() outside the test of the length
previousAndFinish(s) == IF Len(s.states) > 1 THEN discardLast(s) ELSE finish(s)

onClickPrevious(s) == IF Len(s.states) > 1 THEN discardLast(s) ELSE s

\* a cancel that goes back to the first entry and drops the others
rejectToFirst(s) ==
    finish([s EXCEPT !.states = <<s.states[1]>>,
                     !.wp.u = s.states[1][1], !.wp.v = s.states[1][2],
                     !.wp.axis = s.states[1][3], !.wp.position = s.states[1][4]])

reject(s) == finish(s)

\* FreeCAD.Units.Quantity(text): [ok, Value]; a text that does not begin
\* with a number raises
Quantity(text) ==
    IF IsOneOf(Digits, text, 1)
      THEN [ok |-> TRUE, Value |-> ParseNumber(Numbers(text)[1])]
      ELSE [ok |-> FALSE, Value |-> 0]

onSetGridSize(s, text) ==
    Then(Quantity(text), LAMBDA q :
      IF q.ok THEN [s EXCEPT !.param.gridSpacing = q.Value] ELSE s)

\* a main line setting written whatever its value
setMainlineAlways(s, i) == [s EXCEPT !.param.gridEvery = i]

onSetMainline(s, i) == IF i > 1 THEN [s EXCEPT !.param.gridEvery = i] ELSE s

onSetSnapRadius(s, i) == [s EXCEPT !.param.snapRange = i]

\* finish() whatever handle() returns
checkAndFinish(s, sel) == finish(handle(s, sel).s)

checkSelection(s, sel) ==
    Then(handle(s, sel), LAMBDA h : IF h.ok THEN finish(h.s) ELSE s)

\* action(arg): the SoEvent callback
action(s, arg) ==
    Then(IF arg.Type = "SoKeyboardEvent" /\ arg.Key = "ESCAPE"
           THEN finish(s) ELSE s,
         LAMBDA s1 :
           IF arg.Type = "SoMouseButtonEvent" /\ arg.State = "DOWN"
              /\ arg.Button = "BUTTON1"
             THEN [s1 EXCEPT !.todo = @ + 1]     \* todo.delay(self.checkSelection)
             ELSE s1)

\* Quantity(value, Length).UserString: two decimals and the unit
UserString(value) == NatStr(value) \o ".00 mm"

\* the view hands an event to every SoEvent callback registered on it: each
\* one is self.action, so action() runs n times for n callbacks
RECURSIVE deliver(_, _, _)
deliver(s, arg, n) ==
    IF n = 0 THEN s ELSE Then(action(s, arg), LAMBDA s1 : deliver(s1, arg, n - 1))

\* view.addEventCallback: a handle no registered callback has
addEventCallback(s) ==
    LET i == CHOOSE k \in 1..(Cardinality(s.registered) + 1) : k \notin s.registered
    IN  [s EXCEPT !.registered = @ \cup {i}, !.call = Callback(i)]

\* Activated, lines 80-126: setup(), the first history entry, closeDialog(),
\* a new task panel with its values filled from the preferences
prepare(s) ==
    Then(setup(s.wp, s.camera, FALSE), LAMBDA p :
      [s EXCEPT !.wp = p,
                !.states = writeCurrent(@, p),
                !.hist.first = IF s.states = <<>> THEN entry(p) ELSE @,
                !.dialog = FALSE,
                !.taskd = [fieldOffset |-> 0,
                           checkCenter |-> s.param.CenterPlaneOnView,
                           fieldGridSpacing |-> UserString(s.param.gridSpacing),
                           fieldGridMainLine |-> s.param.gridEvery,
                           fieldSnapRadius |-> s.param.snapRange]])

Activated(s, sel) ==
    Then(prepare(s), LAMBDA s3 :
      Then(handle(s3, sel), LAMBDA h :
        IF h.ok THEN h.s
        ELSE Then(alignToSelection(s3.wp, sel), LAMBDA a :
               IF a.ok
                 THEN Then(displayAxis(s3, a.plane), finish)
                 ELSE addEventCallback([s3 EXCEPT !.dialog = TRUE]))))

---------------------------------------------------------------------------
(* The state machine *)

\* the events the view hands to the callback
Event(type, key, state, button) ==
    [Type |-> type, Key |-> key, State |-> state, Button |-> button]
Escape == Event("SoKeyboardEvent", "ESCAPE", "DOWN", "")
LeftDown == Event("SoMouseButtonEvent", "", "DOWN", "BUTTON1")
Events ==
    {Escape,
     Event("SoKeyboardEvent", "A", "DOWN", ""),
     LeftDown,
     Event("SoMouseButtonEvent", "", "UP", "BUTTON1"),
     Event("SoMouseButtonEvent", "", "DOWN", "BUTTON2"),
     Event("SoLocation2Event", "", "", "")}

\* no task panel has been created yet
NoPanel ==
    [fieldOffset |-> 0, checkCenter |-> FALSE, fieldGridSpacing |-> "",
     fieldGridMainLine |-> 0, fieldSnapRadius |-> 0]

Init ==
    /\ states = <<>>
    /\ wp = InitialPlane
    /\ taskd = NoPanel
    /\ dialog = FALSE
    /\ call = CallUnset
    /\ registered = {}
    /\ todo = 0
    /\ wpButton = [text |-> "None", tip |-> ""]
    /\ param = [CenterPlaneOnView |-> FALSE, gridSpacing |-> 1,
                gridEvery |-> 10, snapRange |-> 8]
    /\ hist = [pushed |-> FALSE, undone |-> FALSE, before |-> <<>>,
               first |-> entry(InitialPlane)]
    /\ last = [op |-> "__init__", raised |-> FALSE, caught |-> FALSE,
               arg |-> "", len |-> 0]

\* the state as a handler finds it when the camera of the view is cam
Seeing(cam) == [St EXCEPT !.camera = cam]

\* the handler named op, given the selection or the key named arg, leaves
\* the state r; last.len is the length of the history it found
Do(op, r, arg) ==
    /\ Len(r.states) <= MaxHist
    /\ Cardinality(r.registered) <= MaxCallbacks
    /\ r.todo <= MaxTodo
    /\ states' = r.states
    /\ wp' = r.wp
    /\ taskd' = r.taskd
    /\ dialog' = r.dialog
    /\ call' = r.call
    /\ registered' = r.registered
    /\ todo' = r.todo
    /\ wpButton' = r.wpButton
    /\ param' = r.param
    /\ hist' = r.hist
    /\ last' = [op |-> op, raised |-> r.raised, caught |-> r.caught,
                arg |-> arg, len |-> Len(states)]

\* the command is run from the toolbar, the menu or its shortcut
DoActivated ==
    \E sel \in Selections, cam \in Views :
        \E r \in {Activated(Seeing(cam), Selected(sel))} : Do("Activated", r, sel)

\* the view delivers an event to the registered callbacks
DoAction ==
    /\ registered # {}
    /\ \E arg \in Events :
         \E r \in {deliver(St, arg, Cardinality(registered))} :
             Do("action", r, arg.Key)

\* the todo queue runs a delayed checkSelection
DoCheckSelection ==
    /\ todo > 0
    /\ \E sel \in Selections :
         \E r \in {checkSelection([St EXCEPT !.todo = @ - 1], Selected(sel))} :
             Do("checkSelection", r, sel)

\* the buttons of the task dialog
DoReject == dialog /\ \E r \in {reject(St)} : Do("reject", r, "")
DoTop ==
    /\ dialog
    /\ \E cam \in Views : \E r \in {onClickTop(Seeing(cam))} : Do("onClickTop", r, "")
DoFront ==
    /\ dialog
    /\ \E cam \in Views : \E r \in {onClickFront(Seeing(cam))} : Do("onClickFront", r, "")
DoSide ==
    /\ dialog
    /\ \E cam \in Views : \E r \in {onClickSide(Seeing(cam))} : Do("onClickSide", r, "")
DoAlign ==
    /\ dialog
    /\ \E cam \in Views : \E r \in {onClickAlign(Seeing(cam))} : Do("onClickAlign", r, "")
DoAuto == dialog /\ \E r \in {onClickAuto(St)} : Do("onClickAuto", r, "")
DoMove ==
    /\ dialog
    /\ \E sel \in Selections, cam \in Views :
         \E r \in {onClickMove(Seeing(cam), Selected(sel))} : Do("onClickMove", r, sel)
DoCenter == dialog /\ \E r \in {onClickCenter(St)} : Do("onClickCenter", r, "")
DoPrevious == dialog /\ \E r \in {onClickPrevious(St)} : Do("onClickPrevious", r, "")

\* the user edits the offset field of the dialog
EditOffset ==
    /\ dialog
    /\ \E o \in Offsets :
         \E r \in {[St EXCEPT !.taskd.fieldOffset = o]} : Do("fieldOffset", r, "")

\* the user edits the grid and snap fields of the dialog
DoSetGridSize ==
    /\ dialog
    /\ \E text \in GridTexts :
         \E r \in {onSetGridSize(St, text)} : Do("onSetGridSize", r, "")
DoSetMainline ==
    /\ dialog
    /\ \E i \in Mainlines :
         \E r \in {onSetMainline(St, i)} : Do("onSetMainline", r, "")
DoSetSnapRadius ==
    /\ dialog
    /\ \E i \in SnapRadii :
         \E r \in {onSetSnapRadius(St, i)} : Do("onSetSnapRadius", r, "")

Next ==
    \/ DoActivated
    \/ DoAction
    \/ DoCheckSelection
    \/ DoReject
    \/ DoTop
    \/ DoFront
    \/ DoSide
    \/ DoAlign
    \/ DoAuto
    \/ DoMove
    \/ DoCenter
    \/ DoPrevious
    \/ EditOffset
    \/ DoSetGridSize
    \/ DoSetMainline
    \/ DoSetSnapRadius

Spec == Init /\ [][Next]_vars

---------------------------------------------------------------------------
(* The task panel and the preferences: sessions in which the user works    *)
(* with the check box, the fields and the Top, Front and Side buttons,     *)
(* the preferences being what earlier runs of the application left         *)

Preferences ==
    [CenterPlaneOnView : BOOLEAN, gridSpacing : {1}, gridEvery : {5},
     snapRange : {4}]

InitPanel ==
    /\ states = <<>>
    /\ wp = InitialPlane
    /\ taskd = NoPanel
    /\ dialog = FALSE
    /\ call = CallUnset
    /\ registered = {}
    /\ todo = 0
    /\ wpButton = [text |-> "None", tip |-> ""]
    /\ param \in Preferences
    /\ hist = [pushed |-> FALSE, undone |-> FALSE, before |-> <<>>,
               first |-> entry(InitialPlane)]
    /\ last = [op |-> "__init__", raised |-> FALSE, caught |-> FALSE,
               arg |-> "", len |-> 0]

\* the command is run with nothing selected
PanelActivated ==
    \E cam \in Views :
        \E r \in {Activated(Seeing(cam), SelNothing)} : Do("Activated", r, "nothing")

\* the user clicks the check box "center plane on view"
ToggleCenter ==
    /\ dialog
    /\ \E r \in {[St EXCEPT !.taskd.checkCenter = ~@]} : Do("checkCenter", r, "")

PanelTop ==
    /\ dialog
    /\ \E cam \in CenterViews :
         \E r \in {onClickTop(Seeing(cam))} : Do("onClickTop", r, "")
PanelFront ==
    /\ dialog
    /\ \E cam \in CenterViews :
         \E r \in {onClickFront(Seeing(cam))} : Do("onClickFront", r, "")
PanelSide ==
    /\ dialog
    /\ \E cam \in CenterViews :
         \E r \in {onClickSide(Seeing(cam))} : Do("onClickSide", r, "")

NextPanel ==
    \/ PanelActivated
    \/ ToggleCenter
    \/ EditOffset
    \/ PanelTop
    \/ PanelFront
    \/ PanelSide
    \/ DoReject
    \/ DoSetGridSize
    \/ DoSetMainline
    \/ DoSetSnapRadius

SpecPanel == InitPanel /\ [][NextPanel]_vars

---------------------------------------------------------------------------
(* The view: sessions in which the user closes the 3D view while the       *)
(* command is active                                                       *)

\* the user closes the 3D view: its callbacks go with it, self.call keeps
\* the handle; the next Activated() finds the view that is active then
CloseView ==
    /\ registered # {}
    /\ \E r \in {[St EXCEPT !.registered = {}]} : Do("closeView", r, "")

NextView ==
    \/ PanelActivated
    \/ CloseView
    \/ DoAction
    \/ DoCheckSelection
    \/ DoReject
    \/ DoTop
    \/ DoAuto
    \/ DoCenter
    \/ DoPrevious

SpecView == Init /\ [][NextView]_vars

---------------------------------------------------------------------------
(* The history *)

\* C1: once Activated() has run, the history is not empty in any reachable
\* state, and its first entry is still the one the first Activated() wrote:
\* no operation removes or replaces it
HistoryFloor ==
    last.op # "__init__" => (states # <<>> /\ states[1] = hist.first)

\* Previous has discarded the second of two entries and left the first
PoppedToTheFloor ==
    /\ last.op = "onClickPrevious"
    /\ last.len = 2
    /\ states = <<hist.first>>

\* C2: with exactly one entry in the history, onClickPrevious() is a no-op:
\* the history, the working plane, the button text and tooltip, the dialog
\* and the callback are left as they are
PreviousAtTheFloor ==
    (dialog /\ Len(states) = 1) => onClickPrevious(St) = St

\* Previous has been clicked on a history of one entry
ClickedAtTheFloor ==
    /\ last.op = "onClickPrevious"
    /\ last.len = 1
    /\ Len(states) = 1
    /\ dialog

\* C3: when a plane change has pushed an entry on the history H with top T
\* and the next operation on the history is Previous, the history is H
\* again and u, v, axis and position of the working plane are those of T
RoundTrip ==
    (last.op = "onClickPrevious" /\ last.len > Len(states) /\ hist.undone) =>
        /\ states = hist.before
        /\ entry(wp) = hist.before[Len(hist.before)]

\* Previous has discarded the entry a plane change had pushed
PushUndone ==
    /\ last.op = "onClickPrevious"
    /\ last.len > Len(states)
    /\ hist.undone
    /\ hist.before # <<>>

\* handle() returns True for the selection named arg
Handled(arg) == handle(St, Selected(arg)).ok

\* alignToSelection() returns True for the selection named arg
Aligned(arg) == alignToSelection(wp, Selected(arg)).ok

\* onClickMove() moves the plane: nothing is selected, or just one vertex
Movable(arg) ==
    Selected(arg) = <<>> \/ Len(SubVertices(Selected(arg))) = 1

\* the handler that ran last made a successful plane change
PlaneChange ==
    \/ last.op \in {"onClickTop", "onClickFront", "onClickSide",
                    "onClickAlign", "onClickAuto"}
    \/ last.op = "Activated" /\ (Handled(last.arg) \/ Aligned(last.arg))
    \/ last.op = "checkSelection" /\ Handled(last.arg)
    \/ last.op = "onClickMove" /\ Movable(last.arg)

\* the change of the length of the history C4 states for the last handler
StatedGrowth ==
    IF PlaneChange THEN 1
    ELSE IF last.op = "onClickPrevious" /\ last.len > 1 THEN -1
    ELSE 0

OneEntryPerSession ==
    (last.op = "Activated" /\ dialog) => states = <<entry(wp)>>

\* C5: an Activated() that finds the history empty writes one entry, the
\* working plane as setup() left it, and leaves no other entry unless a
\* selection is recognised; an Activated() that finds entries keeps them
\* all, in their order: the history is carried over from one activation
\* to the next
HistoryCarriedOver ==
    \A sel \in Selections, cam \in Views :
        \E r \in {Activated(Seeing(cam), Selected(sel))} :
            IF states = <<>>
              THEN /\ r.states[1] = entry(setup(wp, cam, FALSE))
                   /\ (Handled(sel) \/ Aligned(sel) \/ Len(r.states) = 1)
              ELSE SubSeq(r.states, 1, Len(states)) = states

\* a later Activated() awaits a selection with the two entries it found
AwaitingWithTwoEntries ==
    /\ last.op = "Activated"
    /\ last.len = 2
    /\ Len(states) = 2
    /\ dialog

---------------------------------------------------------------------------
(* The session *)

\* the last handler was a cancel: reject() or the ESCAPE key
Cancel ==
    last.op = "reject" \/ (last.op = "action" /\ last.arg = "ESCAPE")

\* the state r C6 states for a cancel: the dialog closed, the working
\* plane that of the first entry, no entry left above the first
Restored(r) ==
    /\ ~r.dialog
    /\ entry(r.wp) = states[1]
    /\ r.states = <<states[1]>>

\* C6 as stated: a cancel, reject() or the ESCAPE key while the dialog
\* awaits a selection, ends the session, sets the working plane back to the
\* first entry of the history and discards the entries above it
CancelRestoresFirst ==
    dialog => (Restored(reject(St)) /\ Restored(action(St, Escape)))

\* the state r a cancel leaves: the dialog closed, the callback of self.call
\* removed, the working plane and the history as they were
Cancelled(r) ==
    /\ ~r.dialog
    /\ r.call = CallNone
    /\ r.registered = registered \ {call.id}
    /\ r.wp = wp
    /\ r.states = states

\* C6: a cancel, reject() or the ESCAPE key while the dialog awaits a
\* selection, closes the dialog and removes the callback of self.call; it
\* leaves the working plane and every entry of the history as they are
CancelKeepsPlane ==
    dialog => (Cancelled(reject(St)) /\ Cancelled(action(St, Escape)))

\* a cancel has left two entries and a plane that is not the first of them
CancelledAboveFirst ==
    /\ Cancel
    /\ ~dialog
    /\ Len(states) = 2
    /\ entry(wp) # states[1]

\* C7: after a handler that changed the plane, a recognised selection in
\* Activated() or checkSelection(), a button or a Previous that discarded
\* an entry, no callback is registered and the dialog is closed
OneShot ==
    (PlaneChange \/ (last.op = "onClickPrevious" /\ last.len > Len(states))) =>
        (registered = {} /\ ~dialog)

\* C8: a checkSelection() that finds a selection handle() returns False for
\* changes nothing: plane, history, button text and tooltip, callback and
\* dialog are as before
UnhandledPickChangesNothing ==
    \A sel \in Selections :
        (todo > 0 /\ ~Handled(sel)) => checkSelection(St, Selected(sel)) = St

\* a checkSelection() found one vertex selected and the dialog still awaits
StillAwaiting ==
    /\ last.op = "checkSelection"
    /\ last.arg = "Vertex"
    /\ dialog
    /\ call.id \in registered

\* C9: a checkSelection() that finds three collinear vertices pushes no
\* entry, leaves the button text and tooltip and keeps the dialog open
CollinearPickFails ==
    (todo > 0 /\ dialog) =>
        \E r \in {checkSelection(St, SelCollinear)} :
            /\ r.states = states
            /\ r.wpButton = wpButton
            /\ r.dialog

\* C10: after a Previous that discarded an entry, the tooltip of the button
\* gives the direction of the plane that was restored
PreviousDescribesPlane ==
    (last.op = "onClickPrevious" /\ last.len > Len(states)) =>
        Contains(wpButton.tip, direction(wp.axis))

---------------------------------------------------------------------------
(* The button text and tooltip *)

\* C11: after a successful plane change, by a selection or by a button, the
\* tooltip of the button carries an offset annotation if and only if the
\* offset field holds a value other than zero
OffsetAnnotated ==
    (\/ last.op \in {"onClickTop", "onClickFront", "onClickSide"}
     \/ last.op \in {"Activated", "checkSelection"} /\ Handled(last.arg)) =>
        (Contains(wpButton.tip, " Offset: ") <=> taskd.fieldOffset # 0)

---------------------------------------------------------------------------
(* The Top, Front and Side buttons *)

\* the button clicked in state s issues one alignToPointAndAxis request: the
\* interpreter reads the given axis, the value of the offset field and, with
\* the check box unchecked, the point (0,0,0) in its text, and the plane of
\* r is the plane that one call leaves
AsRequested(r, s, axis) ==
    /\ command(s, axis) \in Commands
    /\ \E q \in {read[command(s, axis)]} :
         /\ q.axis = axis
         /\ q.offset = s.taskd.fieldOffset
         /\ (~s.taskd.checkCenter => q.point = ZeroVector)
         /\ r.wp = alignToPointAndAxis(s.wp, q.point, axis, q.offset, ZeroVector)

\* C12: each of Top, Front and Side issues exactly one alignToPointAndAxis
\* request, with axis (0,0,1) for Top, (0,-1,0) for Front and (1,0,0) for
\* Side, with the value of the offset field as offset and, when the check
\* box is unchecked, with the point (0,0,0)
CanonicalRequest ==
    dialog =>
        \A cam \in CenterViews : \E s \in {Seeing(cam)} :
            /\ AsRequested(onClickTop(s), s, Vector(0, 0, 1))
            /\ AsRequested(onClickFront(s), s, Vector(0, -1, 0))
            /\ AsRequested(onClickSide(s), s, Vector(1, 0, 0))

\* Front has been clicked with the check box unchecked and an offset of 2
FrontWithOffset ==
    /\ last.op = "onClickFront"
    /\ ~taskd.checkCenter
    /\ taskd.fieldOffset = 2
    /\ wp.axis = Vector(0, -1, 0)
    /\ wp.position = Vector(0, -2, 0)

---------------------------------------------------------------------------
(* The events of the view *)

\* C13: a left-button-down event, and no other event, schedules exactly
\* one deferred checkSelection(); action() itself reads no selection and
\* leaves plane, history and button as they are
OneCheckPerClick ==
    registered # {} =>
        \A arg \in Events :
            \E r \in {deliver(St, arg, Cardinality(registered))} :
                /\ r.todo = todo + (IF arg = LeftDown THEN 1 ELSE 0)
                /\ r.states = states
                /\ r.wp = wp
                /\ r.wpButton = wpButton

---------------------------------------------------------------------------
(* The preferences *)

\* the values the spin boxes and the grid spacing field hand to their slots
SpinValues == {0, 1, 2, 5, 8, 10}
FieldTexts == {"", "abc", "1 mm", "2", "5 mm"}

\* C14 as stated: every change of a value in the panel is written to its
\* preference at the time of the change: the state of the check box, and
\* every value of the main line and snap radius spin boxes
WrittenOnChange ==
    dialog =>
        /\ (last.op = "checkCenter" =>
                param.CenterPlaneOnView = taskd.checkCenter)
        /\ \A i \in SpinValues :
             /\ onSetMainline(St, i).param.gridEvery = i
             /\ onSetSnapRadius(St, i).param.snapRange = i

\* C14: Activated() fills the panel from the four preferences.  A change of
\* the snap radius is written at once, whatever the value; one of the main
\* line only if the value is greater than 1; one of the grid spacing only if
\* the text is a quantity; the check box is not written when it changes but
\* by finish(), which stores the state it has then
PreferencesReadAndWritten ==
    /\ \A cam \in Views :
         \E r \in {Activated(Seeing(cam), SelNothing)} :
             /\ r.taskd.checkCenter = param.CenterPlaneOnView
             /\ r.taskd.fieldGridSpacing = UserString(param.gridSpacing)
             /\ r.taskd.fieldGridMainLine = param.gridEvery
             /\ r.taskd.fieldSnapRadius = param.snapRange
    /\ dialog =>
         /\ \A i \in SpinValues :
              /\ onSetSnapRadius(St, i).param = [param EXCEPT !.snapRange = i]
              /\ onSetMainline(St, i).param =
                     IF i > 1 THEN [param EXCEPT !.gridEvery = i] ELSE param
         /\ \A text \in FieldTexts :
              onSetGridSize(St, text).param =
                  IF Quantity(text).ok
                    THEN [param EXCEPT !.gridSpacing = Quantity(text).Value]
                    ELSE param
         /\ reject(St).param =
                [param EXCEPT !.CenterPlaneOnView = taskd.checkCenter]

\* the check box has been clicked and the preference is still the old one
ToggledNotWritten ==
    /\ last.op = "checkCenter"
    /\ dialog
    /\ param.CenterPlaneOnView # taskd.checkCenter

---------------------------------------------------------------------------
(* The Move button *)

\* C15 as stated: Move with nothing selected is a no-op: the position of the
\* plane, the history and the dialog are left as they are
MoveWithoutSelectionIdle ==
    dialog =>
        \A cam \in Views : \E r \in {onClickMove(Seeing(cam), SelNothing)} :
            /\ r.wp.position = wp.position
            /\ r.states = states
            /\ r.dialog

\* C15: Move with nothing selected moves the plane to the point where the
\* line of sight through the camera meets it, pushes that plane on the
\* history, sets the button text to Custom and ends the session; Move is a
\* no-op when something is selected that does not hold exactly one vertex
MoveWithoutSelectionCenters ==
    dialog =>
        /\ \A cam \in Views : \E r \in {onClickMove(Seeing(cam), SelNothing)} :
             /\ r.wp = [wp EXCEPT !.position = projectPoint(wp, cam.pos, cam.dir)]
             /\ r.states = Append(states, entry(r.wp))
             /\ r.wpButton.text = "Custom"
             /\ ~r.dialog
             /\ r.call = CallNone
             /\ r.registered = registered \ {call.id}
        /\ \A sel \in Selections :
             (Selected(sel) # <<>> /\ Len(SubVertices(Selected(sel))) # 1) =>
                 onClickMove(St, Selected(sel)) = St

\* Move with nothing selected has pushed an entry and closed the dialog
MovedToTheView ==
    /\ last.op = "onClickMove"
    /\ last.arg = "nothing"
    /\ Len(states) = last.len + 1
    /\ entry(wp) = states[Len(states)]
    /\ ~dialog

---------------------------------------------------------------------------
(* Saved planes *)

\* the objects that carry a saved plane
SavedPlanes ==
    {[SelObject(type, "Saved") EXCEPT !.Placement = ProxyPlacement] :
        type \in {"WorkingPlaneProxy", "BuildingPart", "SectionPlane"}}

\* C16: when the one selected object is a WorkingPlaneProxy, a BuildingPart
\* or a SectionPlane, handle() returns True and u, v, axis and position of
\* the working plane are those of the placement of the object: no offset
\* is applied, whatever the offset field holds
SavedPlaneAsPlaced ==
    todo > 0 =>
        \A o \in SavedPlanes : \E h \in {handle(St, <<o>>)} :
            /\ h.ok
            /\ entry(h.s.wp) = <<o.Placement.u, o.Placement.v,
                                 o.Placement.axis, o.Placement.Base>>

\* a proxy has been picked while the offset field held 2
ProxyPickedWithOffset ==
    /\ last.op = "checkSelection"
    /\ last.arg = "WorkingPlaneProxy"
    /\ taskd.fieldOffset = 2
    /\ wp.position = ProxyPlacement.Base
    /\ wp.axis = ProxyPlacement.axis

---------------------------------------------------------------------------
(* The centre of the view *)

\* the angle between a and b is below 0.0001: for the vectors of the model,
\* neither is zero and they point the same way
SmallAngle(a, b) ==
    /\ a # ZeroVector
    /\ b # ZeroVector
    /\ cross(a, b) = ZeroVector
    /\ dot(a, b) > 0

\* C17: getCenterPoint() returns the zero vector whenever the check box is
\* unchecked or the angle between the camera position projected on the axis
\* and the view direction is below 0.0001; otherwise it returns a point
\* that is the camera position plus a multiple of the view direction
CenterPointCases ==
    dialog =>
        \A cam \in CenterViews, axis \in CanonicalAxes :
            \E cp \in {getCenterPoint(Seeing(cam), axis)} :
                IF ~taskd.checkCenter
                   \/ SmallAngle(project(cam.pos, axis), cam.dir)
                  THEN cp = ZeroVector
                  ELSE cross(sub(cp, cam.pos), cam.dir) = ZeroVector

\* Top has been clicked with the check box checked and a camera whose
\* projected position points along the view direction: no centring
DegenerateViewNotCentred ==
    /\ last.op = "onClickTop"
    /\ taskd.checkCenter
    /\ wp.position = multiply(Vector(0, 0, 1), taskd.fieldOffset)

---------------------------------------------------------------------------
(* The history and the plane *)

\* C18: whenever a handler has completed, the last entry of the history is
\* the working plane: its u, v, axis and position
TopIsCurrent ==
    last.op # "__init__" =>
        (states # <<>> /\ states[Len(states)] = entry(wp))

---------------------------------------------------------------------------
(* finish() *)

\* C19: once self.call has been assigned, finish() returns with self.call
\* None and the callback it referred to no longer registered, also when the
\* view is gone and the removal raises RuntimeError; a second finish()
\* right after it removes no callback and raises nothing
FinishClearsCall ==
    call.set =>
        \E r \in {finish(St)} :
            /\ ~r.raised
            /\ r.call = CallNone
            /\ call.id \notin r.registered
            /\ \E r2 \in {finish(r)} :
                 /\ ~r2.raised
                 /\ ~r2.caught
                 /\ r2.call = CallNone
                 /\ r2.registered = r.registered

\* Cancel was clicked after the view had been closed: the RuntimeError of
\* the removal was caught and self.call is None
FinishedWithoutView ==
    /\ last.op = "reject"
    /\ last.caught
    /\ ~last.raised
    /\ call = CallNone
    /\ ~dialog

\* C20: whenever finish() runs, self.call has been assigned, a handle or
\* None: no handler ends by the AttributeError of reading it unset
FinishReadsAssignedCall == ~last.raised

---------------------------------------------------------------------------
(* The callbacks *)

\* C21: at most one SoEvent callback of the command is registered on the
\* view, and a registered callback is the one self.call refers to
OneCallback ==
    /\ Cardinality(registered) <= 1
    /\ \A i \in registered : call = Callback(i)

---------------------------------------------------------------------------
(* A deferred checkSelection() after the end of the session *)

\* C22: a checkSelection() that was queued by a click and runs after
\* finish() has ended the session changes neither the working plane, nor
\* the history, nor the text and tooltip of the button
LateCheckChangesNothing ==
    (todo > 0 /\ ~dialog /\ call = CallNone) =>
        \A sel \in Selections :
            \E r \in {checkSelection([St EXCEPT !.todo = @ - 1], Selected(sel))} :
                /\ r.wp = wp
                /\ r.states = states
                /\ r.wpButton = wpButton

====
